---- MODULE Spec2Model ----
(***************************************************************************)
(* A state-machine model of the hack_yourself shop (Flask application):    *)
(* the database tables (User, Category, Product, Order with OrderItem),    *)
(* one browser session (logged-in user and cart), the signed tokens handed *)
(* out by the auth blueprint, and one action per route handler.            *)
(*                                                                         *)
(* Text is a sequence of one-character strings (a word that is never       *)
(* taken apart may be a single element).  Money is an integer number of    *)
(* thousandths of the currency unit, so that round(x, 2) is visible.       *)
(* The Russian status labels are transliterated to ASCII.                  *)
(***************************************************************************)
EXTENDS Integers, Sequences, FiniteSets, TLC

VARIABLES
    users,       \* table User: sequence, the id of a user is its index
    categories,  \* table Category: function id -> name
    products,    \* table Product: function id -> [name, price, category_id]
    orders,      \* table Order: sequence, the id of an order is its index
    cur,         \* flask_login current_user: a user id, 0 when anonymous
    cart,        \* session["cart"]: function key (text) -> quantity
    tokens,      \* the tokens _ts(app).dumps has produced so far
    now,         \* the clock, in seconds
    stripeKeys,  \* STRIPE_SECRET_KEY and STRIPE_PUBLISHABLE_KEY are both set
    resp         \* the last request and its answer: [route, code, info]

vars == <<users, categories, products, orders, cur, cart, tokens, now, stripeKeys, resp>>

-----------------------------------------------------------------------------
(* Bounds of the model *)

MaxQty == 2
MaxOrders == 3
MaxShopOrders == 1
MaxUsers == 2
MaxProducts == 2
MaxCategories == 2
MaxTokens == 2
MaxId == 2

\* largest row id the seed command may reach
MaxRowId == 4

-----------------------------------------------------------------------------
(* Text: str.strip, str.lower, int(str), str(int) *)

Absent == <<"<absent>">>

EmptyText == << >>

\* request.form.get(name) or ""
Field(x) == IF x = Absent THEN EmptyText ELSE x

IsSpace(c) == c = " "

RECURSIVE LStrip(_)
LStrip(s) == IF s # << >> /\ IsSpace(Head(s)) THEN LStrip(Tail(s)) ELSE s

RECURSIVE RStrip(_)
RStrip(s) == IF s # << >> /\ IsSpace(s[Len(s)]) THEN RStrip(SubSeq(s, 1, Len(s) - 1)) ELSE s

Strip(s) == RStrip(LStrip(s))

UpperChars == <<"A", "B", "C", "D", "E", "F", "G", "H", "I", "J", "K", "L", "M",
                "N", "O", "P", "Q", "R", "S", "T", "U", "V", "W", "X", "Y", "Z">>

LowerChars == <<"a", "b", "c", "d", "e", "f", "g", "h", "i", "j", "k", "l", "m",
                "n", "o", "p", "q", "r", "s", "t", "u", "v", "w", "x", "y", "z">>

IsUpper(c) == \E i \in 1..26 : UpperChars[i] = c

IsLower(c) == \E i \in 1..26 : LowerChars[i] = c

LowerChar(c) == IF IsUpper(c) THEN LowerChars[CHOOSE i \in 1..26 : UpperChars[i] = c] ELSE c

Lower(s) == [i \in 1..Len(s) |-> LowerChar(s[i])]

DigitChars == <<"0", "1", "2", "3", "4", "5", "6", "7", "8", "9">>

IsDigit(c) == \E d \in 1..10 : DigitChars[d] = c

DigitVal(c) == (CHOOSE d \in 1..10 : DigitChars[d] = c) - 1

RECURSIVE DigitsVal(_, _)
DigitsVal(s, acc) == IF s = << >> THEN acc ELSE DigitsVal(Tail(s), 10 * acc + DigitVal(Head(s)))

AllDigits(s) == s # << >> /\ \A i \in 1..Len(s) : IsDigit(s[i])

\* int(text): surrounding blanks and one sign are accepted, anything else raises ValueError
ParseInt(text) ==
    LET s == Strip(text)
        signed == s # << >> /\ Head(s) \in {"-", "+"}
        body == IF signed THEN Tail(s) ELSE s
    IN  IF text # Absent /\ AllDigits(body)
        THEN [ok |-> TRUE, val |-> IF signed /\ Head(s) = "-" THEN 0 - DigitsVal(body, 0) ELSE DigitsVal(body, 0)]
        ELSE [ok |-> FALSE, val |-> 0]

RECURSIVE NatStr(_)
NatStr(n) == IF n < 10 THEN <<DigitChars[n + 1]>> ELSE NatStr(n \div 10) \o <<DigitChars[(n % 10) + 1]>>

\* str(int)
Str(n) == IF n < 0 THEN <<"-">> \o NatStr(0 - n) ELSE NatStr(n)

Max(S) == CHOOSE m \in S : \A x \in S : x <= m

\* round(x, 2) of an amount in thousandths: to the nearest hundredth, ties to even
Round2(x) ==
    LET q == x \div 10
        r == x % 10
    IN  IF r < 5 THEN 10 * q
        ELSE IF r > 5 THEN 10 * (q + 1)
        ELSE IF q % 2 = 0 THEN 10 * q ELSE 10 * (q + 1)

\* a finite function with one entry set, or one entry removed
Put(f, k, v) == [x \in DOMAIN f \cup {k} |-> IF x = k THEN v ELSE f[x]]

Drop(f, k) == [x \in DOMAIN f \ {k} |-> f[x]]

EmptyMap == << >>

-----------------------------------------------------------------------------
(* Stored values *)

\* Order.status as the handlers write it (transliterated):
\*   StProcessing  "Obrabotka platezha"   checkout, new order; admin 'pending'
\*   StAwaitAdmin  "Ozhidanie platezha"   admin 'awaiting_payment'
\*   StAwaitShop   "Ozhidanie oplaty"     checkout without online payment
\*   StPaid        "Oplacheno"            admin 'paid'; payment_success
\*   StCanceled    "Platyozh otmenyon"    admin 'canceled'; payment_cancel
StProcessing == "Obrabotka platezha"

StAwaitAdmin == "Ozhidanie platezha"

StAwaitShop == "Ozhidanie oplaty"

StPaid == "Oplacheno"

StCanceled == "Platyozh otmenyon"

\* Order.status column default
StDefault == "new"

AllowedStatuses == {<<"new">>, <<"pending">>, <<"awaiting_payment">>, <<"paid">>, <<"canceled">>}

NewUser(email, password, is_admin) ==
    [email |-> email, password |-> password, is_admin |-> is_admin,
     email_confirmed |-> FALSE, default_address |-> EmptyText]

UserIds == 1..Len(users)

OrderIds == 1..Len(orders)

\* User.query.filter_by(email=e).first(): the id, 0 when there is none
UserByEmail(e) ==
    IF \E u \in UserIds : users[u].email = e
    THEN CHOOSE u \in UserIds : users[u].email = e /\ \A v \in UserIds : users[v].email = e => u <= v
    ELSE 0

\* the id INTEGER PRIMARY KEY gives a new row: one more than the largest in the table
NextId(table) == IF DOMAIN table = {} THEN 1 ELSE Max(DOMAIN table) + 1

IsAuthenticated == cur # 0

\* info: the inputs and outputs of the request that the properties below read
Response(route, code, info) == [route |-> route, code |-> code, info |-> info]

NoInfo == [none |-> TRUE]

-----------------------------------------------------------------------------
(* Request inputs *)

\* prices an administrator types, in thousandths; ok = FALSE: float() raises ValueError
Prices == {0, 1004, 2500}

PriceInputs == {[ok |-> TRUE, val |-> p] : p \in Prices} \cup {[ok |-> FALSE, val |-> 0]}

\* the status field of the order form
StatusInputs == AllowedStatuses \cup {Absent, <<" ", "paid">>, <<"shipped">>}

\* ids in URLs and in id fields
IdInputs == 1..MaxId

-----------------------------------------------------------------------------
(* auth blueprint: login, logout *)

\* passwords as typed; e-mail addresses are one letter, "a" for a@example.org

PwdA == <<"A", "d", "m", "1", "n", "!">>

PwdB == <<"S", "h", "o", "p", "2", "#">>

PwdShort == <<"A", "1", "!">>

PwdNoDigit == <<"S", "h", "o", "p", "p", "#">>

\* User.check_password: the stored hash is the hash of this password
CheckPassword(u, password) == users[u].password = password

\* POST /login
Login(email, password) ==
    LET e == Lower(Strip(email))
        u == UserByEmail(e)
    IN  /\ IF u # 0 /\ CheckPassword(u, password)
           THEN /\ cur' = u
                /\ resp' = Response("login", 302, NoInfo)
           ELSE /\ cur' = cur
                /\ resp' = Response("login", 200, NoInfo)
        /\ UNCHANGED <<users, categories, products, orders, cart, tokens, now, stripeKeys>>

\* flask_login.login_required: the anonymous user is redirected to auth.login
Unauthorized(route, req) ==
    /\ resp' = Response(route, 302, req)
    /\ UNCHANGED <<users, categories, products, orders, cur, cart, tokens, now, stripeKeys>>

\* GET /logout
Logout ==
    IF ~IsAuthenticated
    THEN Unauthorized("logout", NoInfo)
    ELSE /\ cur' = 0
         /\ resp' = Response("logout", 302, NoInfo)
         /\ UNCHANGED <<users, categories, products, orders, cart, tokens, now, stripeKeys>>

-----------------------------------------------------------------------------
(* admin blueprint *)

\* utils.admin_required passes (does not abort)
AdminRequiredAuthOnly == IsAuthenticated

AdminRequired == IsAuthenticated /\ users[cur].is_admin

\* abort(403) in the blueprint's before_request
Forbidden(route, req) ==
    /\ resp' = Response(route, 403, req)
    /\ UNCHANGED <<users, categories, products, orders, cur, cart, tokens, now, stripeKeys>>

\* a handler that ends without writing: a page, a 404, a 500 after rollback
Reply(route, code, req) ==
    /\ resp' = Response(route, code, req)
    /\ UNCHANGED <<users, categories, products, orders, cur, cart, tokens, now, stripeKeys>>

AdminPages == {"admin.index", "admin.categories", "admin.products", "admin.orders"}

\* GET /admin/, /admin/categories, /admin/products, /admin/orders
AdminView(route) ==
    IF ~AdminRequired THEN Forbidden(route, NoInfo)
    ELSE Reply(route, 200, NoInfo)

CategoryNamed(name) == \E c \in DOMAIN categories : categories[c] = name

\* POST /admin/categories/new
CategoryNew(nameIn) ==
    LET req == NoInfo
        name == Strip(Field(nameIn))
    IN  IF ~AdminRequired THEN Forbidden("admin.category_new", req)
        ELSE IF name = EmptyText THEN Reply("admin.category_new", 200, req)
        ELSE IF CategoryNamed(name) THEN Reply("admin.category_new", 200, req)
        ELSE /\ Cardinality(DOMAIN categories) < MaxCategories
             /\ NextId(categories) <= MaxId
             /\ categories' = Put(categories, NextId(categories), name)
             /\ resp' = Response("admin.category_new", 302, req)
             /\ UNCHANGED <<users, products, orders, cur, cart, tokens, now, stripeKeys>>

\* POST /admin/categories/<cid>/edit
CategoryEdit(cid, nameIn) ==
    LET req == NoInfo
        name == Strip(Field(nameIn))
    IN  IF ~AdminRequired THEN Forbidden("admin.category_edit", req)
        ELSE IF cid \notin DOMAIN categories THEN Reply("admin.category_edit", 404, req)
        ELSE IF name = EmptyText THEN Reply("admin.category_edit", 200, req)
        \* Category.name is unique: the commit raises IntegrityError
        ELSE IF \E c \in DOMAIN categories \ {cid} : categories[c] = name
        THEN Reply("admin.category_edit", 500, req)
        ELSE /\ categories' = Put(categories, cid, name)
             /\ resp' = Response("admin.category_edit", 302, req)
             /\ UNCHANGED <<users, products, orders, cur, cart, tokens, now, stripeKeys>>

\* POST /admin/categories/<cid>/delete; the products of the category lose their category_id
CategoryDelete(cid) ==
    LET req == NoInfo
    IN  IF ~AdminRequired THEN Forbidden("admin.category_delete", req)
        ELSE IF cid \notin DOMAIN categories THEN Reply("admin.category_delete", 404, req)
        ELSE /\ categories' = Drop(categories, cid)
             /\ products' = [p \in DOMAIN products |->
                    IF products[p].category_id = cid
                    THEN [products[p] EXCEPT !.category_id = 0]
                    ELSE products[p]]
             /\ resp' = Response("admin.category_delete", 302, req)
             /\ UNCHANGED <<users, orders, cur, cart, tokens, now, stripeKeys>>

\* request.form.get("category_id", type=int) or None; 0 stands for None
CategoryIdField(text) == IF ParseInt(text).ok THEN ParseInt(text).val ELSE 0

\* POST /admin/products/new
ProductNew(nameIn, priceIn, catIn) ==
    LET req == NoInfo
        name == Strip(Field(nameIn))
    IN  IF ~AdminRequired THEN Forbidden("admin.product_new", req)
        ELSE IF ~priceIn.ok THEN Reply("admin.product_new", 500, req)
        ELSE IF name = EmptyText THEN Reply("admin.product_new", 200, req)
        ELSE /\ Cardinality(DOMAIN products) < MaxProducts
             /\ NextId(products) <= MaxId
             /\ products' = Put(products, NextId(products),
                    [name |-> name, price |-> priceIn.val, category_id |-> CategoryIdField(catIn)])
             /\ resp' = Response("admin.product_new", 302, req)
             /\ UNCHANGED <<users, categories, orders, cur, cart, tokens, now, stripeKeys>>

\* POST /admin/products/<pid>/edit
ProductEdit(pid, nameIn, priceIn, catIn) ==
    LET req == [pid |-> pid]
    IN  IF ~AdminRequired THEN Forbidden("admin.product_edit", req)
        ELSE IF pid \notin DOMAIN products THEN Reply("admin.product_edit", 404, req)
        ELSE IF ~priceIn.ok THEN Reply("admin.product_edit", 500, req)
        ELSE /\ products' = Put(products, pid,
                    [name |-> Strip(Field(nameIn)), price |-> priceIn.val,
                     category_id |-> CategoryIdField(catIn)])
             /\ resp' = Response("admin.product_edit", 302, req)
             /\ UNCHANGED <<users, categories, orders, cur, cart, tokens, now, stripeKeys>>

\* POST /admin/products/<pid>/delete
ProductDelete(pid) ==
    LET req == NoInfo
    IN  IF ~AdminRequired THEN Forbidden("admin.product_delete", req)
        ELSE IF pid \notin DOMAIN products THEN Reply("admin.product_delete", 404, req)
        ELSE /\ products' = Drop(products, pid)
             /\ resp' = Response("admin.product_delete", 302, req)
             /\ UNCHANGED <<users, categories, orders, cur, cart, tokens, now, stripeKeys>>

\* the status order_status stores for an accepted value; 'new' has no branch and stores nothing
StatusAfter(old, new_status) ==
    IF new_status = <<"pending">> THEN StProcessing
    ELSE IF new_status = <<"awaiting_payment">> THEN StAwaitAdmin
    ELSE IF new_status = <<"paid">> THEN StPaid
    ELSE IF new_status = <<"canceled">> THEN StCanceled
    ELSE old

\* POST /admin/orders/<order_id>/status
OrderStatus(order_id, statusIn) ==
    LET req == [order_id |-> order_id, status |-> statusIn]
        new_status == Strip(Field(statusIn))
    IN  IF ~AdminRequired THEN Forbidden("admin.order_status", req)
        ELSE IF order_id \notin OrderIds THEN Reply("admin.order_status", 404, req)
        ELSE IF new_status \in AllowedStatuses
        THEN /\ orders' = [orders EXCEPT ![order_id].status = StatusAfter(@, new_status)]
             /\ resp' = Response("admin.order_status", 302, req)
             /\ UNCHANGED <<users, categories, products, cur, cart, tokens, now, stripeKeys>>
        ELSE Reply("admin.order_status", 302, req)

-----------------------------------------------------------------------------
(* utils: the cart and the totals *)

\* [int(pid) for pid in cart.keys()] does not raise
CartKeysOk(c) == \A k \in DOMAIN c : ParseInt(k).ok

CartIds(c) == {ParseInt(k).val : k \in DOMAIN c}

\* int(cart.get(str(p.id), 0))
CartQty(c, pid) == IF Str(pid) \in DOMAIN c THEN c[Str(pid)] ELSE 0

\* cart_items: one row per product of the table whose id is among the converted keys
CartItems(c) ==
    {[product_id |-> p, qty |-> CartQty(c, p), price |-> products[p].price,
      line_total |-> products[p].price * CartQty(c, p)] : p \in CartIds(c) \cap DOMAIN products}

RECURSIVE SumLines(_)
SumLines(rows) ==
    IF rows = {} THEN 0
    ELSE LET r == CHOOSE x \in rows : TRUE IN r.line_total + SumLines(rows \ {r})

\* the total cart_items returns (not rounded)
CartTotal(c) == SumLines(CartItems(c))

RECURSIVE SumItems(_)
SumItems(items) ==
    IF items = {} THEN 0
    ELSE LET it == CHOOSE x \in items : TRUE
         IN  it.price_snapshot * it.quantity + SumItems(items \ {it})

\* order_total with the product's current price in place of the saved one
OrderTotalCurrentPrice(order) ==
    Round2(SumLines({[line_total |->
        (IF it.product_id \in DOMAIN products THEN products[it.product_id].price ELSE 0) * it.quantity,
        product_id |-> it.product_id] : it \in order.items}))

\* utils.order_total
OrderTotal(order) == Round2(SumItems(order.items))

-----------------------------------------------------------------------------
(* shop blueprint: the cart *)

\* quantity texts of forms and JSON bodies
QtyInputs == {Absent, <<"0">>, <<"1">>, <<"2">>, <<"-", "1">>, <<"x">>}

PyMax(a, b) == IF a >= b THEN a ELSE b

\* the amount cart_add adds for a parsed qty, without the lower limit of 1
AddedQtyUnclamped(qty) == qty

\* the amount cart_add adds for a parsed qty
AddedQty(qty) == PyMax(1, qty)

\* POST /cart/add/<pid>
CartAdd(pid, qtyIn, xhr) ==
    LET info == [pid |-> pid, qty |-> qtyIn]
        qty == IF qtyIn = Absent THEN [ok |-> TRUE, val |-> 1] ELSE ParseInt(qtyIn)
        key == Str(pid)
        old == IF key \in DOMAIN cart THEN cart[key] ELSE 0
    IN  IF pid \notin DOMAIN products THEN Reply("shop.cart_add", 404, info)
        ELSE IF ~qty.ok THEN Reply("shop.cart_add", 500, info)
        ELSE /\ old + AddedQty(qty.val) <= MaxQty
             /\ cart' = Put(cart, key, old + AddedQty(qty.val))
             /\ resp' = Response("shop.cart_add", IF xhr THEN 200 ELSE 302, info)
             /\ UNCHANGED <<users, categories, products, orders, cur, tokens, now, stripeKeys>>

\* a JSON number with a fractional part: the marker, then the digits before the point
JsonFraction(whole) == <<"frac">> \o whole

IsJsonFraction(v) == v # Absent /\ v # << >> /\ Head(v) = "frac"

\* int(v) of a JSON value: a number with a fraction is cut to its whole part, a string is
\* parsed, None raises TypeError
PyInt(v) ==
    IF IsJsonFraction(v) THEN [ok |-> TRUE, val |-> DigitsVal(Tail(v), 0)] ELSE ParseInt(v)

\* one pass of the loop of cart_update_api over the items of the body
RECURSIVE ApplyItems(_, _)
ApplyItems(c, items) ==
    IF items = << >> THEN c
    ELSE LET it == Head(items)
             pid == PyInt(it.pid)
             qty == IF it.qty = Absent THEN [ok |-> TRUE, val |-> 0] ELSE PyInt(it.qty)
         IN  IF ~pid.ok \/ ~qty.ok THEN ApplyItems(c, Tail(items))
             ELSE IF PyMax(0, qty.val) > 0
             THEN ApplyItems(Put(c, Str(pid.val), PyMax(0, qty.val)), Tail(items))
             ELSE ApplyItems(Drop(c, Str(pid.val)), Tail(items))

\* POST /cart/api/update.  cart_items runs after the cart was changed in the session: when
\* it raises, the answer is a 500 and the session is written or not, as the server is run
CartUpdateApi(items, sessionSaved) ==
    LET info == [items |-> items]
        new == ApplyItems(cart, items)
    IN  IF CartKeysOk(new)
        THEN /\ cart' = new
             /\ resp' = Response("shop.cart_update_api", 200, info)
             /\ UNCHANGED <<users, categories, products, orders, cur, tokens, now, stripeKeys>>
        ELSE /\ cart' = IF sessionSaved THEN new ELSE cart
             /\ resp' = Response("shop.cart_update_api", 500, info)
             /\ UNCHANGED <<users, categories, products, orders, cur, tokens, now, stripeKeys>>

\* max(0, int(value)), 0 when int raises ValueError
FormQty(value) == IF ParseInt(value).ok THEN PyMax(0, ParseInt(value).val) ELSE 0

\* POST /cart/update; form maps the part after "qty_" of each qty_ field to its value
CartUpdate(form) ==
    /\ cart' = [k \in {x \in DOMAIN form : FormQty(form[x]) > 0} |-> FormQty(form[k])]
    /\ resp' = Response("shop.cart_update", 302, [form |-> form])
    /\ UNCHANGED <<users, categories, products, orders, cur, tokens, now, stripeKeys>>

\* POST /cart/clear
CartClear ==
    /\ cart' = EmptyMap
    /\ resp' = Response("shop.cart_clear", 302, NoInfo)
    /\ UNCHANGED <<users, categories, products, orders, cur, tokens, now, stripeKeys>>

-----------------------------------------------------------------------------
(* shop blueprint: checkout and payment *)

OrderNos(ids) == {orders[i].user_order_no : i \in ids} \cup {0}

\* func.max(Order.user_order_no) over all orders, whoever placed them
LastNoAnyUser(user_id) == Max(OrderNos(OrderIds))

\* func.max(Order.user_order_no) filtered by Order.user_id == user_id, or 0
LastNoOfUser(user_id) == Max(OrderNos({i \in OrderIds : orders[i].user_id = user_id}))

\* func.max(Order.user_order_no) filtered by user_id IS NULL and Order.email == email, or 0
LastNoOfGuest(email) ==
    Max(OrderNos({i \in OrderIds : orders[i].user_id = 0 /\ orders[i].email = email}))

\* the OrderItem rows checkout adds for the rows of cart_items
ItemsOf(rows) ==
    {[product_id |-> r.product_id, quantity |-> r.qty, price_snapshot |-> r.price] : r \in rows}

\* the address checkout uses: the form's, else the logged-in user's default_address
CheckoutAddress(addressIn) ==
    IF Strip(Field(addressIn)) # EmptyText THEN Strip(Field(addressIn))
    ELSE IF IsAuthenticated THEN users[cur].default_address
    ELSE EmptyText

\* GET or POST /checkout; stripeOk: stripe.checkout.Session.create returns a session
Checkout(method, nameIn, emailIn, addressIn, stripeOk) ==
    LET req == [method |-> method, name |-> nameIn, email |-> emailIn, address |-> addressIn,
                page |-> "checkout.html", order_id |-> 0, stripe_session |-> FALSE]
        name == Strip(Field(nameIn))
        email == Lower(Strip(Field(emailIn)))
        address == CheckoutAddress(addressIn)
        rows == CartItems(cart)
        user_id == cur
        order == [user_id |-> user_id, customer_name |-> name, email |-> email,
                  address |-> address, status |-> StProcessing,
                  user_order_no |-> IF user_id # 0 THEN LastNoOfUser(user_id) + 1
                                    ELSE LastNoOfGuest(email) + 1,
                  stripe_session_id |-> 0, items |-> ItemsOf(rows)]
        order_id == Len(orders) + 1
    IN  IF ~CartKeysOk(cart) THEN Reply("shop.checkout", 500, [req EXCEPT !.page = "error"])
        ELSE IF method = "GET" THEN Reply("shop.checkout", 200, req)
        ELSE IF name = EmptyText \/ email = EmptyText \/ address = EmptyText
        THEN Reply("shop.checkout", 200, req)
        ELSE IF CartTotal(cart) <= 0 THEN Reply("shop.checkout", 302, [req EXCEPT !.page = "shop.index"])
        ELSE /\ Len(orders) < MaxOrders
             /\ IF stripeKeys /\ stripeOk
                THEN /\ orders' = Append(orders, [order EXCEPT !.stripe_session_id = order_id])
                     /\ resp' = Response("shop.checkout", 303,
                                [req EXCEPT !.page = "stripe", !.order_id = order_id,
                                            !.stripe_session = TRUE])
                ELSE /\ orders' = Append(orders, [order EXCEPT !.status = StAwaitShop])
                     /\ resp' = Response("shop.checkout", 200,
                                [req EXCEPT !.page = "thankyou.html", !.order_id = order_id])
             /\ cart' = EmptyMap
             /\ UNCHANGED <<users, categories, products, cur, tokens, now, stripeKeys>>

\* GET /payment/success?order_id=
PaymentSuccess(order_id) ==
    IF order_id \notin OrderIds THEN Reply("shop.payment_success", 404, NoInfo)
    ELSE /\ orders' = [orders EXCEPT ![order_id].status = StPaid]
         /\ resp' = Response("shop.payment_success", 200, NoInfo)
         /\ UNCHANGED <<users, categories, products, cur, cart, tokens, now, stripeKeys>>

\* GET /payment/cancel?order_id=
PaymentCancel(order_id) ==
    IF order_id \notin OrderIds THEN Reply("shop.payment_cancel", 404, NoInfo)
    ELSE /\ orders' = [orders EXCEPT ![order_id].status = StCanceled]
         /\ resp' = Response("shop.payment_cancel", 302, NoInfo)
         /\ UNCHANGED <<users, categories, products, cur, cart, tokens, now, stripeKeys>>

-----------------------------------------------------------------------------
(* auth blueprint: the account *)

\* allowed, decided by the e-mail alone
OrderAllowedByEmail(order) == order.email = users[cur].email

\* allowed in account_order: by user_id when the order has one, else by e-mail
OrderAllowed(order) ==
    IF order.user_id # 0 THEN order.user_id = cur ELSE order.email = users[cur].email

\* GET /account/order/<order_id>
AccountOrder(order_id) ==
    LET info == [order_id |-> order_id]
    IN  IF ~IsAuthenticated THEN Unauthorized("auth.account_order", info)
        ELSE IF order_id \notin OrderIds THEN Reply("auth.account_order", 404, info)
        ELSE IF ~(OrderAllowed(orders[order_id]) \/ users[cur].is_admin)
        THEN Reply("auth.account_order", 403, info)
        ELSE Reply("auth.account_order", 200, info)

\* POST /profile, action save_profile (full_name and avatar are not modelled)
ProfileSave(addressIn) ==
    IF ~IsAuthenticated THEN Unauthorized("auth.profile", NoInfo)
    ELSE /\ users' = [users EXCEPT ![cur].default_address = Strip(Field(addressIn))]
         /\ resp' = Response("auth.profile", 302, NoInfo)
         /\ UNCHANGED <<categories, products, orders, cur, cart, tokens, now, stripeKeys>>

-----------------------------------------------------------------------------
(* auth blueprint: registration and the signed tokens *)

\* max_age of the confirmation link, in seconds
ConfirmMaxAge == 86400

\* max_age of the password reset link, in seconds
ResetMaxAge == 1800

\* the shortest password password_is_strong accepts
MinPasswordLen == 6

\* the instants the clock takes in the model
Times == {0, ResetMaxAge, ResetMaxAge + 1, ConfirmMaxAge, ConfirmMaxAge + 1}

\* URLSafeTimedSerializer.dumps(email) at the current time; sig: the signature is the
\* application's
Dumps(email) == [email |-> email, ts |-> now, sig |-> TRUE]

\* tokens made without the secret key
ForgedTokens == {[email |-> e, ts |-> now, sig |-> FALSE] : e \in {<<"a">>, <<"b">>}}

\* loads without the max_age check
LoadsNoMaxAge(token, max_age) == IF ~token.sig THEN "BadSignature" ELSE "ok"

\* URLSafeTimedSerializer.loads(token, max_age): the signature first, then the age
Loads(token, max_age) ==
    IF ~token.sig THEN "BadSignature"
    ELSE IF now - token.ts > max_age THEN "SignatureExpired"
    ELSE "ok"

\* a password check that looks at the length alone
PasswordIsLong(password) == Len(password) >= MinPasswordLen

\* utils.password_is_strong
PasswordIsStrong(password) ==
    /\ Len(password) >= MinPasswordLen
    /\ \E i \in 1..Len(password) : IsUpper(password[i])
    /\ \E i \in 1..Len(password) : IsDigit(password[i])
    /\ \E i \in 1..Len(password) :
          ~IsUpper(password[i]) /\ ~IsLower(password[i]) /\ ~IsDigit(password[i])

\* the model keeps at most MaxTokens tokens
CanIssue(token) == token \in tokens \/ Cardinality(tokens) < MaxTokens

\* the uniqueness test of register that finds nobody
EmailTakenNever(email) == FALSE

\* User.query.filter_by(email=email).first() in register
EmailTaken(email) == UserByEmail(email) # 0

\* GET or POST /register
Register(method, emailIn, passwordIn) ==
    LET info == [method |-> method, email |-> emailIn, password |-> passwordIn]
        email == Lower(Strip(Field(emailIn)))
        password == Field(passwordIn)
    IN  IF method = "GET" THEN Reply("auth.register", 200, info)
        ELSE IF email = EmptyText \/ password = EmptyText THEN Reply("auth.register", 200, info)
        ELSE IF ~PasswordIsStrong(password) THEN Reply("auth.register", 200, info)
        ELSE IF EmailTaken(email) THEN Reply("auth.register", 200, info)
        ELSE /\ Len(users) < MaxUsers
             /\ CanIssue(Dumps(email))
             /\ users' = Append(users, NewUser(email, password, FALSE))
             /\ tokens' = tokens \cup {Dumps(email)}
             /\ resp' = Response("auth.register", 302, info)
             /\ UNCHANGED <<categories, products, orders, cur, cart, now, stripeKeys>>

\* the categories and products of the seed command: Odezhda, Suveniry, Stikery and the
\* T-shirt, the mug and the stickers (names are one letter, prices in thousandths)
SeedCategoryNames == <<(<<"o">>), (<<"s">>), (<<"t">>)>>

SeedDemo ==
    <<[name |-> <<"f">>, price |-> 1999990, category |-> <<"o">>],
      [name |-> <<"k">>, price |-> 350500, category |-> <<"s">>],
      [name |-> <<"n">>, price |-> 114900, category |-> <<"t">>]>>

\* Category.query.filter_by(name=name).first(): the id, 0 when there is none
CategoryByName(cats, name) ==
    IF \E c \in DOMAIN cats : cats[c] = name
    THEN CHOOSE c \in DOMAIN cats : cats[c] = name /\ \A x \in DOMAIN cats : cats[x] = name => c <= x
    ELSE 0

\* the first loop of seed: a category is added for each name that has none
RECURSIVE SeedCategories(_, _)
SeedCategories(cats, names) ==
    IF names = << >> THEN cats
    ELSE IF CategoryByName(cats, Head(names)) # 0 THEN SeedCategories(cats, Tail(names))
    ELSE SeedCategories(Put(cats, NextId(cats), Head(names)), Tail(names))

\* the test of the second loop that finds no product
ProductNamedNever(prods, name) == FALSE

\* Product.query.filter_by(name=d["name"]).first()
ProductNamed(prods, name) == \E p \in DOMAIN prods : prods[p].name = name

\* the second loop of seed: a product is added for each demo name that has none
RECURSIVE SeedProducts(_, _, _)
SeedProducts(prods, cats, demo) ==
    IF demo = << >> THEN prods
    ELSE IF ProductNamed(prods, Head(demo).name) THEN SeedProducts(prods, cats, Tail(demo))
    ELSE SeedProducts(Put(prods, NextId(prods),
                          [name |-> Head(demo).name, price |-> Head(demo).price,
                           category_id |-> CategoryByName(cats, Head(demo).category)]),
                      cats, Tail(demo))

\* flask seed
Seed ==
    LET cats == SeedCategories(categories, SeedCategoryNames)
        prods == SeedProducts(products, cats, SeedDemo)
    IN  /\ \A c \in DOMAIN cats : c <= MaxRowId
        /\ \A q \in DOMAIN prods : q <= MaxRowId
        /\ categories' = cats
        /\ products' = prods
        /\ resp' = Response("cli.seed", 0, NoInfo)
        /\ UNCHANGED <<users, orders, cur, cart, tokens, now, stripeKeys>>

\* flask create-admin --email --password
CreateAdmin(emailIn, password) ==
    LET email == Lower(emailIn)
        u == UserByEmail(email)
    IN  IF emailIn = Absent \/ emailIn = EmptyText \/ password = Absent \/ password = EmptyText
        THEN Reply("cli.create_admin", 0, NoInfo)
        ELSE IF u = 0
        THEN /\ Len(users) < MaxUsers
             /\ users' = Append(users, NewUser(email, password, TRUE))
             /\ resp' = Response("cli.create_admin", 0, NoInfo)
             /\ UNCHANGED <<categories, products, orders, cur, cart, tokens, now, stripeKeys>>
        ELSE /\ users' = [users EXCEPT ![u].is_admin = TRUE, ![u].password = password]
             /\ resp' = Response("cli.create_admin", 0, NoInfo)
             /\ UNCHANGED <<categories, products, orders, cur, cart, tokens, now, stripeKeys>>

\* GET /confirm/send
SendConfirmEmail ==
    IF ~IsAuthenticated THEN Unauthorized("auth.send_confirm_email", NoInfo)
    ELSE IF users[cur].email_confirmed THEN Reply("auth.send_confirm_email", 302, NoInfo)
    ELSE /\ CanIssue(Dumps(users[cur].email))
         /\ tokens' = tokens \cup {Dumps(users[cur].email)}
         /\ resp' = Response("auth.send_confirm_email", 302, NoInfo)
         /\ UNCHANGED <<users, categories, products, orders, cur, cart, now, stripeKeys>>

\* email.lower() != current_user.email.lower(), negated
SameEmail(a, b) == Lower(a) = Lower(b)

\* GET /confirm/<token>
ConfirmEmail(token) ==
    LET info == [token |-> token]
    IN  IF ~IsAuthenticated THEN Unauthorized("auth.confirm_email", info)
        ELSE IF Loads(token, ConfirmMaxAge) # "ok" THEN Reply("auth.confirm_email", 302, info)
        ELSE IF ~SameEmail(token.email, users[cur].email) THEN Reply("auth.confirm_email", 403, info)
        ELSE /\ users' = [users EXCEPT ![cur].email_confirmed = TRUE]
             /\ resp' = Response("auth.confirm_email", 302, info)
             /\ UNCHANGED <<categories, products, orders, cur, cart, tokens, now, stripeKeys>>

\* POST /password/forgot
PasswordForgot(emailIn) ==
    LET email == Lower(Strip(Field(emailIn)))
    IN  IF UserByEmail(email) = 0 THEN Reply("auth.password_forgot", 302, NoInfo)
        ELSE /\ CanIssue(Dumps(email))
             /\ tokens' = tokens \cup {Dumps(email)}
             /\ resp' = Response("auth.password_forgot", 302, NoInfo)
             /\ UNCHANGED <<users, categories, products, orders, cur, cart, now, stripeKeys>>

\* GET or POST /password/reset/<token>
PasswordReset(token, method, pwdIn, pwd2In) ==
    LET info == [token |-> token, method |-> method, password |-> pwdIn, password2 |-> pwd2In,
                 to |-> "auth.password_forgot"]
        u == UserByEmail(Lower(token.email))
        pwd == Field(pwdIn)
        pwd2 == Field(pwd2In)
    IN  IF Loads(token, ResetMaxAge) # "ok" THEN Reply("auth.password_reset", 302, info)
        ELSE IF u = 0 THEN Reply("auth.password_reset", 302, info)
        ELSE IF method = "GET" THEN Reply("auth.password_reset", 200, [info EXCEPT !.to = ""])
        ELSE IF pwd # pwd2 THEN Reply("auth.password_reset", 302, [info EXCEPT !.to = "request.url"])
        ELSE IF ~PasswordIsStrong(pwd)
        THEN Reply("auth.password_reset", 302, [info EXCEPT !.to = "request.url"])
        ELSE /\ users' = [users EXCEPT ![u].password = pwd]
             /\ resp' = Response("auth.password_reset", 302, [info EXCEPT !.to = "auth.login"])
             /\ UNCHANGED <<categories, products, orders, cur, cart, tokens, now, stripeKeys>>

\* POST /profile, action change_password
ProfileChangePassword(curIn, pwdIn, pwd2In) ==
    IF ~IsAuthenticated THEN Unauthorized("auth.profile", NoInfo)
    ELSE IF ~CheckPassword(cur, Field(curIn)) THEN Reply("auth.profile", 302, NoInfo)
    ELSE IF ~PasswordIsStrong(Field(pwdIn)) THEN Reply("auth.profile", 302, NoInfo)
    ELSE IF Field(pwdIn) # Field(pwd2In) THEN Reply("auth.profile", 302, NoInfo)
    ELSE /\ users' = [users EXCEPT ![cur].password = Field(pwdIn)]
         /\ resp' = Response("auth.profile", 302, NoInfo)
         /\ UNCHANGED <<categories, products, orders, cur, cart, tokens, now, stripeKeys>>

\* time passes
Tick(t) ==
    /\ t > now
    /\ now' = t
    /\ resp' = Response("clock", 0, NoInfo)
    /\ UNCHANGED <<users, categories, products, orders, cur, cart, tokens, stripeKeys>>

-----------------------------------------------------------------------------
(* A small shop: administrator a (flask create-admin), customer b (registered), and a
   catalogue of one category and two products entered in the admin panel, priced 1.004
   and 2.50 *)

ShopUsers == <<NewUser(<<"a">>, PwdA, TRUE), NewUser(<<"b">>, PwdB, FALSE)>>

ShopCategories == (1 :> <<"n">>)

ShopProducts ==
    (1 :> [name |-> <<"n">>, price |-> 1004, category_id |-> 1]) @@
    (2 :> [name |-> <<"m">>, price |-> 2500, category_id |-> 0])

\* an order as checkout stores it for a guest without online payment
GuestOrder ==
    [user_id |-> 0, customer_name |-> <<"n">>, email |-> <<"b">>, address |-> <<"n">>,
     status |-> StAwaitShop, user_order_no |-> 1, stripe_session_id |-> 0,
     items |-> {[product_id |-> 1, quantity |-> 2, price_snapshot |-> 1004]}]

InitSession ==
    /\ cur = 0
    /\ cart = EmptyMap
    /\ tokens = {}
    /\ now = 0
    /\ resp = Response("start", 0, NoInfo)

-----------------------------------------------------------------------------
(* SpecAdmin: the admin panel, used by the administrator, the customer and guests *)

InitAdmin ==
    /\ users = ShopUsers
    /\ categories = ShopCategories
    /\ products = ShopProducts
    /\ orders = <<GuestOrder>>
    /\ stripeKeys = FALSE
    /\ InitSession

NextAdmin ==
    \/ \E e \in {<<"a">>, <<"B">>}, p \in {PwdA, PwdB} : Login(e, p)
    \/ Logout
    \/ \E r \in AdminPages : AdminView(r)
    \/ \E n \in {Absent, <<"n">>, <<" ", "m">>} : CategoryNew(n)
    \/ \E c \in IdInputs, n \in {Absent, <<" ", "m">>} : CategoryEdit(c, n)
    \/ \E c \in IdInputs : CategoryDelete(c)
    \/ \E n \in {Absent, <<"n">>}, pr \in {[ok |-> TRUE, val |-> 2500], [ok |-> FALSE, val |-> 0]} :
          ProductNew(n, pr, <<"1">>)
    \/ \E i \in IdInputs, pr \in PriceInputs \ {[ok |-> TRUE, val |-> 0]}, c \in {Absent, <<"1">>} :
          ProductEdit(i, <<"n">>, pr, c)
    \/ \E i \in IdInputs : ProductDelete(i)
    \/ \E o \in 1..(Len(orders) + 1), st \in StatusInputs : OrderStatus(o, st)
    \/ \E o \in 1..(Len(orders) + 1) : PaymentSuccess(o)
    \/ \E o \in 1..(Len(orders) + 1) : PaymentCancel(o)

SpecAdmin == InitAdmin /\ [][NextAdmin]_vars

-----------------------------------------------------------------------------
(* SpecCart: the requests that change the session cart *)

\* qty_ fields of the cart form: leading zero, unknown product, not a number
CartForms ==
    {(<<"0", "1">> :> <<"2">>) @@ (<<"2">> :> <<"1">>),
     (<<"3">> :> <<"1">>) @@ (<<"1">> :> <<"x">>),
     (<<"x">> :> <<"1">>) @@ (<<"2">> :> <<"2">>)}

\* JSON bodies of /cart/api/update
CartBodies ==
    {<<[pid |-> <<"2">>, qty |-> <<"0">>]>>,
     <<[pid |-> <<"x">>, qty |-> <<"1">>], [pid |-> <<"1">>, qty |-> <<"2">>]>>,
     <<[pid |-> <<"1">>, qty |-> <<"1">>], [pid |-> <<"1">>, qty |-> JsonFraction(<<"2">>)]>>,
     <<[pid |-> <<"2">>, qty |-> <<"-", "1">>], [pid |-> <<"3">>, qty |-> Absent]>>}

InitCart ==
    /\ users = ShopUsers
    /\ categories = ShopCategories
    /\ products = ShopProducts
    /\ orders = << >>
    /\ stripeKeys = FALSE
    /\ InitSession

NextCart ==
    \/ \E pid \in 1..3, q \in QtyInputs, xhr \in BOOLEAN : CartAdd(pid, q, xhr)
    \/ \E items \in CartBodies, saved \in BOOLEAN : CartUpdateApi(items, saved)
    \/ \E form \in CartForms : CartUpdate(form)
    \/ CartClear

SpecCart == InitCart /\ [][NextCart]_vars

-----------------------------------------------------------------------------
(* SpecShop: checkout with and without Stripe, and later price changes *)

\* checkout forms: complete, no name, blank address
CheckoutForms ==
    {[name |-> <<"n">>, email |-> <<" ", "B">>, address |-> <<" ", "s">>],
     [name |-> Absent, email |-> <<"a">>, address |-> <<"s">>],
     [name |-> <<"n">>, email |-> <<"a">>, address |-> <<" ">>]}

InitShop ==
    /\ users = ShopUsers
    /\ categories = ShopCategories
    /\ products = ShopProducts
    /\ orders = << >>
    /\ stripeKeys \in BOOLEAN
    /\ InitSession

NextShop ==
    \/ Login(<<"a">>, PwdA)
    \/ Logout
    \/ \E pid \in IdInputs : CartAdd(pid, Absent, FALSE)
    \/ CartUpdate((<<"0", "1">> :> <<"2">>) @@ (<<"2">> :> <<"1">>) @@ (<<"3">> :> <<"1">>))
    \/ \E m \in {"GET", "POST"}, f \in CheckoutForms, ok \in BOOLEAN :
          Len(orders) < MaxShopOrders /\ Checkout(m, f.name, f.email, f.address, ok)
    \/ \E pr \in {[ok |-> TRUE, val |-> 1004], [ok |-> TRUE, val |-> 2500]} :
          ProductEdit(1, <<"n">>, pr, Absent)

SpecShop == InitShop /\ [][NextShop]_vars

-----------------------------------------------------------------------------
(* SpecAccount: users and guests place orders and look at them *)

AccountForms ==
    {[name |-> <<"n">>, email |-> <<" ", "B">>, address |-> <<"s">>],
     [name |-> <<"n">>, email |-> <<"a">>, address |-> Absent]}

InitAccount ==
    /\ users = ShopUsers
    /\ categories = ShopCategories
    /\ products = ShopProducts
    /\ orders = << >>
    /\ stripeKeys = FALSE
    /\ InitSession

\* here every order is for one piece of product 2
NextAccount ==
    \/ \E e \in {<<"a">>, <<"B">>}, p \in {PwdA, PwdB} : Login(e, p)
    \/ Logout
    \/ cart = EmptyMap /\ CartAdd(2, Absent, FALSE)
    \/ \E f \in AccountForms : Checkout("POST", f.name, f.email, f.address, FALSE)
    \/ \E o \in 1..MaxOrders : AccountOrder(o)
    \/ ProfileSave(<<"s", " ">>)

SpecAccount == InitAccount /\ [][NextAccount]_vars

-----------------------------------------------------------------------------
(* SpecAuth: confirmation and password reset links, while time passes *)

\* the two password fields of the reset form
ResetForms ==
    {[password |-> PwdA, password2 |-> PwdA], [password |-> PwdA, password2 |-> PwdB],
     [password |-> PwdNoDigit, password2 |-> PwdNoDigit],
     [password |-> PwdShort, password2 |-> PwdShort], [password |-> Absent, password2 |-> Absent]}

InitAuth ==
    /\ users = ShopUsers
    /\ categories = ShopCategories
    /\ products = ShopProducts
    /\ orders = << >>
    /\ stripeKeys = FALSE
    /\ InitSession

NextAuth ==
    \/ \E e \in {<<"a">>, <<"B">>} : Login(e, PwdA)
    \/ Login(<<"b">>, PwdB)
    \/ Logout
    \/ SendConfirmEmail
    \/ \E t \in tokens \cup ForgedTokens : ConfirmEmail(t)
    \/ \E e \in {<<" ", "B">>, <<"c">>} : PasswordForgot(e)
    \/ \E t \in tokens \cup ForgedTokens, f \in ResetForms :
          PasswordReset(t, "POST", f.password, f.password2)
    \/ \E t \in tokens \cup ForgedTokens : PasswordReset(t, "GET", Absent, Absent)
    \/ \E t \in Times : Tick(t)

SpecAuth == InitAuth /\ [][NextAuth]_vars

-----------------------------------------------------------------------------
(* SpecUsers: accounts are made by registration and by the create-admin command *)

\* e-mail fields and options as typed
RegisterEmails == {Absent, <<"a">>, <<" ", "A">>, <<"b">>}

RegisterPasswords == {Absent, PwdA, PwdB, PwdNoDigit}

InitUsers ==
    /\ users = << >>
    /\ categories = ShopCategories
    /\ products = ShopProducts
    /\ orders = << >>
    /\ stripeKeys = FALSE
    /\ InitSession

NextUsers ==
    \/ \E m \in {"GET", "POST"}, e \in RegisterEmails, p \in RegisterPasswords : Register(m, e, p)
    \/ \E e \in RegisterEmails, p \in {Absent, PwdA, PwdShort} : CreateAdmin(e, p)
    \/ \E e \in {<<"a">>, <<"B">>}, p \in {PwdA, PwdB} : Login(e, p)
    \/ Logout

SpecUsers == InitUsers /\ [][NextUsers]_vars

-----------------------------------------------------------------------------
(* SpecSeed: the seed command, run again and again while the administrator renames and
   deletes categories and products *)

InitSeed ==
    /\ users = ShopUsers
    /\ categories = ShopCategories
    /\ products = ShopProducts
    /\ orders = << >>
    /\ stripeKeys = FALSE
    /\ InitSession

NextSeed ==
    \/ Seed
    \/ Login(<<"a">>, PwdA)
    \/ \E c \in IdInputs : CategoryEdit(c, <<"m">>)
    \/ \E c \in DOMAIN categories : CategoryDelete(c)
    \/ ProductEdit(1, <<"m">>, [ok |-> TRUE, val |-> 2500], <<"1">>)
    \/ \E q \in DOMAIN products : ProductDelete(q)

SpecSeed == InitSeed /\ [][NextSeed]_vars

-----------------------------------------------------------------------------
(* Properties of the admin panel *)

AdminRoutes ==
    AdminPages \cup
    {"admin.category_new", "admin.category_edit", "admin.category_delete", "admin.product_new",
     "admin.product_edit", "admin.product_delete", "admin.order_status"}

\* C1: a request to any route of the admin blueprint by a user who is not logged in or
\* has no is_admin flag is answered with 403 and changes no category, product or order.
C1_NonAdminForbidden ==
    [][(resp'.route \in AdminRoutes /\ (cur = 0 \/ ~users[cur].is_admin))
        => (resp'.code = 403 /\ categories' = categories /\ products' = products
            /\ orders' = orders)]_vars

\* C1 witness: a logged-in customer was refused by the admin panel.
C1_Witness ==
    /\ resp.route \in AdminRoutes /\ resp.code = 403
    /\ cur # 0 /\ ~users[cur].is_admin

\* the stored status that stands for a submitted value, 'new' being the column default
StatusFor(value) ==
    IF value = <<"new">> THEN StDefault
    ELSE IF value = <<"pending">> THEN StProcessing
    ELSE IF value = <<"awaiting_payment">> THEN StAwaitAdmin
    ELSE IF value = <<"paid">> THEN StPaid
    ELSE StCanceled

\* C3: after order_status for an existing order with a status of the allowed list, the
\* order's stored status is the one that stands for the submitted value, whatever it was
\* before.
C3_StatusStored ==
    (/\ resp.route = "admin.order_status" /\ resp.code = 302
     /\ resp.info.order_id \in OrderIds
     /\ Strip(Field(resp.info.status)) \in AllowedStatuses)
    => orders[resp.info.order_id].status = StatusFor(Strip(Field(resp.info.status)))

-----------------------------------------------------------------------------
(* Properties of the account pages and of the order numbers *)

\* the current user owns the order or is an administrator
OwnerOrAdmin(order) ==
    \/ users[cur].is_admin
    \/ order.user_id # 0 /\ order.user_id = cur
    \/ order.user_id = 0 /\ order.email = users[cur].email

\* C2: account_order, asked by a logged-in user for an existing order, answers 200 iff the
\* user is an administrator, or the order has the user's id, or the order has no user id
\* and carries the user's e-mail; in every other case it answers 403.
C2_OwnerOrAdminOnly ==
    (resp.route = "auth.account_order" /\ cur # 0 /\ resp.info.order_id \in OrderIds)
    => /\ resp.code = 200 <=> OwnerOrAdmin(orders[resp.info.order_id])
       /\ ~OwnerOrAdmin(orders[resp.info.order_id]) => resp.code = 403

\* C2 witness: a customer was refused an order that carries his e-mail but another user's id.
C2_Witness ==
    /\ resp.route = "auth.account_order" /\ resp.code = 403 /\ cur # 0
    /\ resp.info.order_id \in OrderIds
    /\ orders[resp.info.order_id].user_id \notin {0, cur}
    /\ orders[resp.info.order_id].email = users[cur].email

OrdersOfUser(u) == {i \in OrderIds : orders[i].user_id = u}

\* C4: the orders of each user are numbered 1, 2, ... in the order of their creation,
\* whatever other users and guests order in between.
C4_NumberedPerUser ==
    \A u \in UserIds : \A i \in OrdersOfUser(u) :
        orders[i].user_order_no = Cardinality({j \in OrdersOfUser(u) : j <= i})

\* C4 witness: a user's first and second order with somebody else's order between them.
C4_Witness ==
    \E u \in UserIds : \E i, j, k \in OrderIds :
        /\ i < j /\ j < k
        /\ orders[i].user_id = u /\ orders[k].user_id = u /\ orders[j].user_id # u
        /\ orders[k].user_order_no = 2

-----------------------------------------------------------------------------
(* Properties of the cart and of checkout *)

\* the request of the step is cart_add for a product of the table, with no qty or an integer
CartAddAccepted ==
    /\ resp'.route = "shop.cart_add"
    /\ resp'.info.pid \in DOMAIN products
    /\ resp'.info.qty = Absent \/ ParseInt(resp'.info.qty).ok

\* the step gives the entry of the added product the quantity it had (0 if none) plus n
\* and leaves the other entries as they were
CartEntryGrownBy(n) ==
    LET key == Str(resp'.info.pid)
    IN  /\ key \in DOMAIN cart'
        /\ cart'[key] = (IF key \in DOMAIN cart THEN cart[key] ELSE 0) + n
        /\ DOMAIN cart' = DOMAIN cart \cup {key}
        /\ \A k \in DOMAIN cart \ {key} : cart'[k] = cart[k]

SubmittedQty == IF resp'.info.qty = Absent THEN 1 ELSE ParseInt(resp'.info.qty).val

CheckoutAccepted ==
    /\ resp'.route = "shop.checkout" /\ resp'.info.method = "POST"
    /\ Strip(Field(resp'.info.name)) # EmptyText
    /\ Strip(Field(resp'.info.email)) # EmptyText
    /\ Strip(Field(resp'.info.address)) # EmptyText
    /\ CartKeysOk(cart) /\ CartTotal(cart) > 0

\* the products of the table that a key of the cart names
CartProducts == {p \in DOMAIN products : \E k \in DOMAIN cart : ParseInt(k).ok /\ ParseInt(k).val = p}

\* the quantity the cart holds for product p, under whatever spelling of its id
RECURSIVE QtyUnder(_, _)
QtyUnder(c, keys) ==
    IF keys = {} THEN 0
    ELSE LET k == CHOOSE x \in keys : TRUE IN c[k] + QtyUnder(c, keys \ {k})

CartQuantity(p) == QtyUnder(cart, {k \in DOMAIN cart : ParseInt(k).ok /\ ParseInt(k).val = p})

\* the step adds exactly one order; it has one item per cart product, with the quantity
\* the cart holds for it and the product's price, and the cart is empty afterwards
OneOrderFromCart ==
    /\ Len(orders') = Len(orders) + 1
    /\ SubSeq(orders', 1, Len(orders)) = orders
    /\ LET o == orders'[Len(orders')]
       IN  /\ Cardinality(o.items) = Cardinality(CartProducts)
           /\ \A p \in CartProducts : \E it \in o.items :
                 /\ it.product_id = p
                 /\ it.quantity = CartQuantity(p)
                 /\ it.price_snapshot = products[p].price
    /\ cart' = EmptyMap

\* C6: an accepted checkout creates exactly one order with one item per cart product,
\* quantity and price taken from the cart and the product, so that order_total of the new
\* order equals the cart total; the cart is empty afterwards on every path.
C6_OrderFromCart ==
    [][CheckoutAccepted
        => (OneOrderFromCart /\ OrderTotal(orders'[Len(orders')]) = CartTotal(cart))]_vars

\* C7: when checkout has created an order and no Stripe session (no keys, or Stripe
\* failed), the thank-you page is shown and the order has the stored status that the
\* admin's order_status writes for 'awaiting_payment'.
C7_AwaitingPaymentStatus ==
    (resp.route = "shop.checkout" /\ resp.info.order_id # 0 /\ ~resp.info.stripe_session)
    => /\ resp.info.page = "thankyou.html"
       /\ orders[resp.info.order_id].status = StatusAfter(StDefault, <<"awaiting_payment">>)

\* C8 as claimed: order_total of every order is the sum of price_snapshot * quantity over
\* its items, and a product_edit leaves order_total of every existing order unchanged.
C8_TotalIsSnapshotSum ==
    [][\A i \in OrderIds :
          /\ OrderTotal(orders[i]) = SumItems(orders[i].items)
          /\ resp'.route = "admin.product_edit"
             => (i \in 1..Len(orders') /\ OrderTotal(orders'[i]) = OrderTotal(orders[i]))]_vars

\* C8 as amended: order_total of every order is the sum of price_snapshot * quantity over
\* its items rounded to two decimals, and a product_edit leaves order_total of every
\* existing order unchanged.
C8_TotalKeptOnPriceEdit ==
    [][\A i \in OrderIds :
          /\ OrderTotal(orders[i]) = Round2(SumItems(orders[i].items))
          /\ resp'.route = "admin.product_edit"
             => (i \in 1..Len(orders') /\ OrderTotal(orders'[i]) = OrderTotal(orders[i]))]_vars

\* C8 witness: product 1 was edited and an order holds it at a price it no longer has.
C8_Witness ==
    /\ resp.route = "admin.product_edit" /\ resp.code = 302
    /\ \E i \in OrderIds : \E it \in orders[i].items :
          /\ it.product_id = resp.info.pid
          /\ it.quantity > 0
          /\ it.price_snapshot # products[resp.info.pid].price

-----------------------------------------------------------------------------
(* Properties of the signed links *)

\* the token of the step's request carries the application's signature and is at most
\* max_age seconds old
FreshToken(max_age) == resp'.info.token.sig /\ now - resp'.info.token.ts <= max_age

\* the token of the step's request names the e-mail of the logged-in user, whatever the case
TokenOfCurrentUser == Lower(resp'.info.token.email) = Lower(users[cur].email)

\* C9: confirm_email sets email_confirmed, and only of the logged-in user, only when the
\* token is signed, at most 24 hours old and carries that user's e-mail; a good token for
\* another e-mail gives 403, an expired or malformed one a redirect, and in those cases no
\* user's flag changes.
C9_ConfirmOnlyOwnFreshToken ==
    [][resp'.route = "auth.confirm_email"
        => /\ users' # users
              => /\ cur # 0 /\ FreshToken(ConfirmMaxAge) /\ TokenOfCurrentUser
                 /\ users' = [users EXCEPT ![cur].email_confirmed = TRUE]
           /\ (cur # 0 /\ FreshToken(ConfirmMaxAge) /\ ~TokenOfCurrentUser)
              => (resp'.code = 403 /\ users' = users)
           /\ (cur # 0 /\ ~FreshToken(ConfirmMaxAge))
              => (resp'.code = 302 /\ users' = users)]_vars

\* C9 witness: a link exactly 24 hours old has confirmed the e-mail of the logged-in user.
C9_Witness ==
    /\ resp.route = "auth.confirm_email" /\ resp.code = 302 /\ cur # 0
    /\ users[cur].email_confirmed
    /\ resp.info.token.sig /\ now - resp.info.token.ts = ConfirmMaxAge

\* a password of at least 6 characters with a capital letter, a digit and a character
\* that is neither a letter nor a digit
StrongPassword(p) ==
    /\ Len(p) >= 6
    /\ \E i \in 1..Len(p) : IsUpper(p[i])
    /\ \E i \in 1..Len(p) : IsDigit(p[i])
    /\ \E i \in 1..Len(p) : ~IsUpper(p[i]) /\ ~IsLower(p[i]) /\ ~IsDigit(p[i])

\* C10: password_reset changes a stored password only when the token is signed, at most
\* 30 minutes old and names an existing user, the request is a POST, and the two passwords
\* are equal and strong; then it changes that user's password alone; in every other case
\* the users are as before.
C10_ResetOnlyWithFreshTokenAndStrongPassword ==
    [][(resp'.route = "auth.password_reset" /\ users' # users)
        => /\ FreshToken(ResetMaxAge)
           /\ resp'.info.method = "POST"
           /\ Field(resp'.info.password) = Field(resp'.info.password2)
           /\ StrongPassword(Field(resp'.info.password))
           /\ \E u \in UserIds :
                 /\ users[u].email = Lower(resp'.info.token.email)
                 /\ users' = [users EXCEPT ![u].password = Field(resp'.info.password)]]_vars

\* C10 witness: a link exactly 30 minutes old has given customer b a new password.
C10_Witness ==
    /\ resp.route = "auth.password_reset" /\ resp.info.to = "auth.login"
    /\ now - resp.info.token.ts = ResetMaxAge
    /\ resp.info.token.email = <<"b">>
    /\ users[2].password = PwdA /\ resp.info.password = PwdA

-----------------------------------------------------------------------------
(* Properties of the accounts *)

\* no two users have the same e-mail
UniqueEmails == \A u, v \in UserIds : users[u].email = users[v].email => u = v

\* the step's request is a registration that has all it needs: a POST with e-mail and
\* password, a strong password, and an e-mail (stripped, in lower case) nobody has
RegisterAcceptable ==
    LET email == Lower(Strip(Field(resp'.info.email)))
        password == Field(resp'.info.password)
    IN  /\ resp'.info.method = "POST"
        /\ email # EmptyText /\ password # EmptyText
        /\ StrongPassword(password)
        /\ \A u \in UserIds : users[u].email # email

\* C11: register adds a user only for an acceptable request, and then one user with the
\* stripped, lower-cased e-mail, leaving the others as they were; any other registration
\* leaves the users unchanged; and at all times no two users share an e-mail, whatever
\* register and create-admin operations have run.
C11_RegisterKeepsEmailsUnique ==
    /\ []UniqueEmails
    /\ [][resp'.route = "auth.register"
           => \/ users' = users
              \/ /\ RegisterAcceptable
                 /\ Len(users') = Len(users) + 1
                 /\ SubSeq(users', 1, Len(users)) = users
                 /\ users'[Len(users')].email = Lower(Strip(Field(resp'.info.email)))]_vars

\* C11 witness: with a registered user and an administrator made by the command in the
\* table, a registration under the first one's e-mail in capitals was turned down.
C11_Witness ==
    /\ resp.route = "auth.register" /\ resp.code = 200
    /\ resp.info.method = "POST" /\ resp.info.email = <<" ", "A">>
    /\ StrongPassword(Field(resp.info.password))
    /\ Len(users) = 2
    /\ \E u, v \in UserIds : users[u].email = <<"a">> /\ ~users[u].is_admin /\ users[v].is_admin

-----------------------------------------------------------------------------
(* Properties of the cart's content *)

\* the key is str(n) of an integer n
DecimalKey(k) == ParseInt(k).ok /\ Str(ParseInt(k).val) = k

\* C12: at all times every key of the session cart is the decimal string of an integer
\* product id, so that cart_items can convert every key.
C12_CartKeysDecimal == \A k \in DOMAIN cart : DecimalKey(k) /\ CartKeysOk(cart)

-----------------------------------------------------------------------------
(* Properties of the seed command *)

\* C13: right after seed has run, a second run would add nothing: the categories and the
\* products after two runs are those after one run.
C13_SeedTwiceIsSeedOnce ==
    resp.route = "cli.seed"
    => /\ SeedCategories(categories, SeedCategoryNames) = categories
       /\ SeedProducts(products, categories, SeedDemo) = products

\* C13 witness: seed has run on a table that held a product with the name of a demo
\* product; that product was kept as it was and two products and three categories came new.
C13_Witness ==
    /\ resp.route = "cli.seed"
    /\ 1 \in DOMAIN products /\ products[1] = ShopProducts[1]
    /\ Cardinality(DOMAIN products) = 4
    /\ Cardinality(DOMAIN categories) = 4

-----------------------------------------------------------------------------
(* Properties of the two cart updates *)

\* the listed items applied in order to cart c: an item with integer pid and qty sets the
\* product's quantity when qty is above 0 and removes the product otherwise (an item
\* without qty counts as qty 0); any other item is skipped
RECURSIVE ListedItemsApplied(_, _)
ListedItemsApplied(c, items) ==
    IF items = << >> THEN c
    ELSE LET it == Head(items)
             qty == IF it.qty = Absent THEN <<"0">> ELSE it.qty
         IN  IF ~ParseInt(it.pid).ok \/ ~ParseInt(qty).ok
             THEN ListedItemsApplied(c, Tail(items))
             ELSE IF ParseInt(qty).val > 0
             THEN ListedItemsApplied(Put(c, Str(ParseInt(it.pid).val), ParseInt(qty).val), Tail(items))
             ELSE ListedItemsApplied(Drop(c, Str(ParseInt(it.pid).val)), Tail(items))

\* C14: cart_update_api leaves the cart as the listed items make it, applied in order:
\* qty > 0 sets the quantity, qty <= 0 removes the product, an item whose pid or qty is
\* not an integer is skipped, and the entries not named stay as they were.
C14_AppliesListedItems ==
    [][resp'.route = "shop.cart_update_api"
        => cart' = ListedItemsApplied(cart, resp'.info.items)]_vars

\* the qty_<id> fields of the form with a positive integer value
PositiveFields(form) ==
    {k \in DOMAIN form : DecimalKey(k) /\ ParseInt(form[k]).ok /\ ParseInt(form[k]).val > 0}

\* C15: after cart_update the cart holds exactly the products that have a qty_<id> field
\* with a positive integer value, each with that quantity, and nothing of the cart before.
C15_CartIsTheForm ==
    [][resp'.route = "shop.cart_update"
        => /\ DOMAIN cart' = PositiveFields(resp'.info.form)
           /\ \A k \in DOMAIN cart' : cart'[k] = ParseInt(resp'.info.form[k]).val]_vars

====
